---- MODULE Spec2Model ----
(***************************************************************************)
(* A model of shell-tester (src/src/index.ts): the Stabilizer, the         *)
(* ShellSession (output buffer, event log, expect waiters, retry) and the  *)
(* ShellTester orchestrator (session registration, run, _runSession).      *)
(*                                                                         *)
(* Time is Date.now() in milliseconds, relative to the creation of the     *)
(* session.  A step of the model is one turn of the event loop: a PTY data *)
(* callback, a timer callback, or the synchronous part of a call made by   *)
(* the script, each followed by the promise continuations it triggers.     *)
(***************************************************************************)
EXTENDS Integers, Sequences, FiniteSets, TLC

\* ------------------------------------------------------------------ bounds
MaxTime == 200
TickMs == 50
MaxChunks == 2
MaxChunkLen == 1
MaxPatLen == 2
MaxCalls == 2
MaxAttempts == 3
MaxSessions == 2
MaxArgs == 2

\* --------------------------------------------------------------- constants
\* The quiet window of the Stabilizer (index.ts:102).
StabilizeMs == 100

\* The size of the PTY that _runSession spawns (index.ts:77-78).
Cols == 80
Rows == 16

Alphabet == {"a", "b"}

\* The timeouts a script passes to expect() in the model.
Timeouts == {100}

StringsUpTo(n) == UNION {[1..k -> Alphabet] : k \in 0..n}

Patterns == StringsUpTo(MaxPatLen)

Chunks == StringsUpTo(MaxChunkLen) \ {<<>>}

VARIABLES
    now,        \* Date.now()
    lastTime,   \* Stabilizer._lastTime
    output,     \* ShellSession._output
    events,     \* ShellSession._events
    listeners,  \* ShellSession._listeners, in insertion order
    calls,      \* the calls the script has made on the session, in call order
    retry,      \* the activation of ShellSession.retry: its locals and position
    probes,     \* the invocations of the callback of retry, in order
    ptys,       \* the PTY processes spawned so far; the last is _ptyProcess
    term,       \* ShellSession._term: the size of the headless terminal
    sessionsDefinitions, \* ShellTester._sessionsDefinitions
    run,        \* the activation of ShellTester.run: its locals and position
    stdout,     \* the "Running session" lines run has printed
    files,      \* the files capture has written, in order
    callbacks   \* the invocations of session callbacks by _runSession, in order

sessionVars == <<lastTime, output, events, listeners, calls>>
retryVars == <<retry, probes>>
ptyVars == <<ptys, term>>
testerVars == <<sessionsDefinitions, run, stdout, files, callbacks>>
vars == <<now, sessionVars, retryVars, ptyVars, testerVars>>

\* ------------------------------------------------------------ pure helpers

\* A faulty variant of IndexOf: the greatest index (lastIndexOf).
LastIndexOf(s, p) ==
    LET hits == {i \in 0..(Len(s) - Len(p)) : SubSeq(s, i + 1, i + Len(p)) = p}
    IN  IF hits = {} THEN -1
        ELSE CHOOSE i \in hits : \A j \in hits : i >= j

\* String.prototype.indexOf: the least index (from 0) at which p occurs in s,
\* or -1.
IndexOf(s, p) ==
    LET hits == {i \in 0..(Len(s) - Len(p)) : SubSeq(s, i + 1, i + Len(p)) = p}
    IN  IF hits = {} THEN -1
        ELSE CHOOSE i \in hits : \A j \in hits : i <= j

\* String.prototype.slice(k) for 0 <= k.
Slice(s, k) == SubSeq(s, k + 1, Len(s))

\* Set.prototype.delete on the insertion-ordered listener set.
Delete(ls, id) == SelectSeq(ls, LAMBDA x : x # id)

\* Set.prototype.add: a member keeps its place.
Add(ls, id) == IF \E k \in 1..Len(ls) : ls[k] = id THEN ls ELSE Append(ls, id)

\* ------------------------------------------------------------- Stabilizer

\* Stabilizer._timeToStabilize for a given _lastTime.
TimeToStabilize(lt) == lt + StabilizeMs

\* What a call does once its wait for stabilization is over: expect() has
\* nothing left to do and returns to its caller.
Finish(c) == [c EXCEPT !.pc = "returned"]

\* A faulty variant of WaitUntilStabilized: the caller goes on at once.
WaitUntilStabilizedNoWait(c, lt, t) == Finish(c)

\* Stabilizer.waitUntilStabilized, from the test of the while loop: at time t
\* with _lastTime = lt the caller either goes on, or sleeps on a timer of
\* _timeToStabilize - Date.now() milliseconds.
WaitUntilStabilized(c, lt, t) ==
    IF t < TimeToStabilize(lt)
    THEN [c EXCEPT !.pc = "sleeping", !.wakeAt = t + (TimeToStabilize(lt) - t)]
    ELSE Finish(c)

\* A faulty variant of Resume: the caller sleeps for the whole window again,
\* whatever the time is.
ResumeSleepsAgain(c, lt, t) == [c EXCEPT !.pc = "sleeping", !.wakeAt = t + StabilizeMs]

\* A faulty variant of Resume: a single sleep, with no second test of the condition.
ResumeWithoutRecheck(c, lt, t) == Finish(c)

\* The timer of waitUntilStabilized has fired: the loop tests its condition
\* again.
Resume(c, lt, t) == WaitUntilStabilized(c, lt, t)

\* ----------------------------------------------------------------- expect

\* The error of the timeout callback: `Expected ${JSON.stringify(str)} not found`.
NoError == [kind |-> "none"]
NotFoundError(str) == [kind |-> "Error", expected |-> str]

\* A faulty variant of Consume: the slice starts at the match, not after it.
ConsumeFromMatch(out, index, str) == Slice(out, index)

\* A faulty variant of Consume: only the match is cut out of the buffer.
ConsumeMatchOnly(out, index, str) == SubSeq(out, 1, index) \o Slice(out, index + Len(str))

\* A faulty variant of Consume: a match leaves the buffer as it is.
ConsumeNothing(out, index, str) == out

\* The buffer after a match of str at index: _output.slice(index + str.length).
Consume(out, index, str) == Slice(out, index + Len(str))

\* resolve() and reject() settle a promise once; later calls do nothing.
Settle(promise, outcome) == IF promise = "pending" THEN outcome ELSE promise

\* A faulty variant of Check: a match neither removes the listener nor clears
\* the timer.
CheckStaysRegistered(st, id) ==
    LET c == st.calls[id]
        index == IndexOf(st.output, c.str)
    IN  IF index # -1
        THEN [output    |-> Consume(st.output, index, c.str),
              listeners |-> st.listeners,
              calls     |-> [st.calls EXCEPT ![id] =
                                [c EXCEPT !.found = @ + 1,
                                          !.promise = Settle(@, "fulfilled")]]]
        ELSE st

\* The closure `check` of call id, run on st = [output, listeners, calls].
Check(st, id) ==
    LET c == st.calls[id]
        index == IndexOf(st.output, c.str)
    IN  IF index # -1
        THEN [output    |-> Consume(st.output, index, c.str),
              listeners |-> Delete(st.listeners, id),
              calls     |-> [st.calls EXCEPT ![id] =
                                [c EXCEPT !.found = @ + 1,
                                          !.timer = FALSE,
                                          !.promise = Settle(@, "fulfilled")]]]
        ELSE st

\* A faulty variant of Broadcast: the listeners are called last to first.
RECURSIVE BroadcastReversed(_, _)
BroadcastReversed(st, ids) ==
    IF ids = <<>> THEN st
    ELSE LET id == ids[Len(ids)]
         IN  BroadcastReversed(IF \E k \in 1..Len(st.listeners) : st.listeners[k] = id
                               THEN Check(st, id) ELSE st,
                               SubSeq(ids, 1, Len(ids) - 1))

\* this._listeners.forEach((l) => l()), over the listeners ids in order.
RECURSIVE Broadcast(_, _)
Broadcast(st, ids) ==
    IF ids = <<>> THEN st
    ELSE Broadcast(IF \E k \in 1..Len(st.listeners) : st.listeners[k] = Head(ids)
                   THEN Check(st, Head(ids)) ELSE st,
                   Tail(ids))

\* A faulty variant of Continue: a timed-out expect waits for stabilization
\* as well.
ContinueWaitsAfterTimeout(c, lt, t) ==
    IF c.pc = "matching" /\ c.promise # "pending" THEN WaitUntilStabilized(c, lt, t)
    ELSE c

\* A faulty variant of Continue: a successful expect returns at once.
ContinueWithoutWait(c, lt, t) ==
    IF c.pc = "matching" /\ c.promise = "fulfilled" THEN Finish(c)
    ELSE IF c.pc = "matching" /\ c.promise = "rejected"
         THEN [c EXCEPT !.pc = "thrown"]
         ELSE c

\* The continuation of expect() after its promise has settled: on success
\* `await this._stabilizer.waitUntilStabilized()`, on failure the rejection
\* leaves expect() as an exception.
Continue(c, lt, t) ==
    IF c.pc = "matching" /\ c.promise = "fulfilled" THEN WaitUntilStabilized(c, lt, t)
    ELSE IF c.pc = "matching" /\ c.promise = "rejected"
         THEN [c EXCEPT !.pc = "thrown"]
         ELSE c

ContinueAll(cs, lt, t) == [i \in DOMAIN cs |-> Continue(cs[i], lt, t)]

\* The script is suspended in an awaited call.
Blocked == \E i \in DOMAIN calls : calls[i].awaited /\ calls[i].pc \in {"matching", "sleeping"}

\* A faulty variant of TimeoutCallback: the waiter stays in the registry.
TimeoutCallbackKeepsListener(st, id) ==
    [st EXCEPT !.calls = [st.calls EXCEPT ![id] =
                            [@ EXCEPT !.timer = FALSE,
                                      !.promise = Settle(@, "rejected"),
                                      !.error = IF st.calls[id].promise = "pending"
                                                THEN [kind |-> "Error",
                                                      expected |-> st.calls[id].str]
                                                ELSE @]]]

\* The timeout callback of expect (index.ts:190-193).
TimeoutCallback(st, id) ==
    [st EXCEPT !.listeners = Delete(st.listeners, id),
               !.calls = [st.calls EXCEPT ![id] =
                            [@ EXCEPT !.timer = FALSE,
                                      !.promise = Settle(@, "rejected"),
                                      !.error = IF st.calls[id].promise = "pending"
                                                THEN NotFoundError(st.calls[id].str)
                                                ELSE @]]]

\* ---------------------------------------------------------------- actions

\* pty.spawn('bash', [], {cols, rows, ...}) (index.ts:79-85): a live PTY of 80
\* by 16, which has been written nothing, has not been resized and has
\* emitted nothing yet.
Spawn ==
    [cols |-> Cols, rows |-> Rows, alive |-> TRUE,
     written |-> <<>>, resized |-> <<>>, emitted |-> <<>>]

Init ==
    /\ now = 0
    /\ lastTime = 0
    /\ output = <<>>
    /\ events = <<[time |-> 0, type |-> "started"]>>
    /\ listeners = <<>>
    /\ calls = <<>>
    /\ retry = [pc |-> "idle"]
    /\ probes = <<>>
    /\ ptys = <<Spawn>>
    /\ term = [cols |-> Cols, rows |-> Rows]
    /\ sessionsDefinitions = <<>>
    /\ run = [pc |-> "idle"]
    /\ stdout = <<>>
    /\ files = <<>>
    /\ callbacks = <<>>

\* Time passes.
Tick ==
    /\ now + TickMs <= MaxTime
    /\ now' = now + TickMs
    /\ UNCHANGED <<sessionVars, retryVars, ptyVars, testerVars>>

NumChunks == Cardinality({k \in 1..Len(events) : events[k].type = "output"})

\* A faulty variant of OnData: the chunk replaces the buffer.
OnDataChunkOnly(data) ==
    /\ NumChunks < MaxChunks
    /\ ptys' = [ptys EXCEPT ![Len(ptys)].emitted = Append(@, data)]
    /\ lastTime' = now
    /\ events' = Append(events, [time |-> now, type |-> "output", data |-> data])
    /\ LET st == Broadcast([output |-> data, listeners |-> listeners,
                            calls |-> calls], listeners)
       IN  /\ output' = st.output
           /\ listeners' = st.listeners
           /\ calls' = ContinueAll(st.calls, now, now)
    /\ UNCHANGED <<now, retryVars, term, testerVars>>

\* A faulty variant of OnData: the listeners are called before the chunk is
\* appended to the buffer.
OnDataNotifyFirst(data) ==
    /\ NumChunks < MaxChunks
    /\ ptys' = [ptys EXCEPT ![Len(ptys)].emitted = Append(@, data)]
    /\ lastTime' = now
    /\ events' = Append(events, [time |-> now, type |-> "output", data |-> data])
    /\ LET st == Broadcast([output |-> output, listeners |-> listeners,
                            calls |-> calls], listeners)
       IN  /\ output' = st.output \o data
           /\ listeners' = st.listeners
           /\ calls' = ContinueAll(st.calls, now, now)
    /\ UNCHANGED <<now, retryVars, term, testerVars>>

\* The ptyProcess.onData handler (index.ts:137-150).
OnData(data) ==
    /\ NumChunks < MaxChunks
    /\ ptys' = [ptys EXCEPT ![Len(ptys)].emitted = Append(@, data)]
    /\ lastTime' = now
    /\ events' = Append(events, [time |-> now, type |-> "output", data |-> data])
    \* this._term.write(data) changes the content of the terminal, which the
    \* model does not hold: Text gives a captured line by its length alone.
    /\ LET st == Broadcast([output |-> output \o data, listeners |-> listeners,
                            calls |-> calls], listeners)
       IN  /\ output' = st.output
           /\ listeners' = st.listeners
           /\ calls' = ContinueAll(st.calls, now, now)
    /\ UNCHANGED <<now, retryVars, term, testerVars>>

\* The script calls expect(str, timeoutMs) (index.ts:178-198).
Expect(str, timeoutMs, awaited) ==
    /\ Len(calls) < MaxCalls
    /\ ~Blocked
    /\ LET id == Len(calls) + 1
           c  == [op |-> "expect", str |-> str, timeoutMs |-> timeoutMs,
                  awaited |-> awaited, deadline |-> now + timeoutMs, timer |-> TRUE,
                  promise |-> "pending", pc |-> "matching", wakeAt |-> 0,
                  found |-> 0, error |-> NoError]
           st == Check([output |-> output, listeners |-> Add(listeners, id),
                        calls |-> Append(calls, c)], id)
       IN  /\ output' = st.output
           /\ listeners' = st.listeners
           /\ calls' = ContinueAll(st.calls, lastTime, now)
    /\ UNCHANGED <<now, lastTime, events, retryVars, ptyVars, testerVars>>

\* The timer set by expect fires.
ExpectTimeout(id) ==
    /\ calls[id].timer
    /\ now >= calls[id].deadline
    /\ LET st == TimeoutCallback([output |-> output, listeners |-> listeners,
                                  calls |-> calls], id)
       IN  /\ listeners' = st.listeners
           /\ calls' = ContinueAll(st.calls, lastTime, now)
    /\ UNCHANGED <<now, lastTime, output, events, retryVars, ptyVars, testerVars>>

\* The timer set by waitUntilStabilized fires.
Wake(id) ==
    /\ calls[id].pc = "sleeping"
    /\ now >= calls[id].wakeAt
    /\ calls' = [calls EXCEPT ![id] = Resume(@, lastTime, now)]
    /\ UNCHANGED <<now, lastTime, output, events, listeners, retryVars, ptyVars, testerVars>>

Next ==
    \/ Tick
    \/ \E data \in Chunks : OnData(data)
    \/ \E str \in Patterns, timeoutMs \in Timeouts, awaited \in BOOLEAN :
          Expect(str, timeoutMs, awaited)
    \/ \E id \in DOMAIN calls : ExpectTimeout(id)
    \/ \E id \in DOMAIN calls : Wake(id)

Spec == Init /\ [][Next]_vars

\* ------------------------------------------------------------------ retry

\* What the callback of retry returns or throws in the model.
Values == {"v1", "v2"}
Errors == {"e1", "e2"}

\* The budgets a script passes to retry() in the model.
RetryTimeouts == {0, 100}

\* A new invocation of the callback, started at time t.
Invoke(ps, t) == Append(ps, [startedAt |-> t, outcome |-> "running"])

\* A faulty variant of RetryCatch: the first failure is thrown, not the caught one.
RetryCatchThrowsFirst(r, ps, e, t) ==
    IF t - r.start > r.timeoutMs
    THEN [retry |-> [r EXCEPT !.pc = "thrown", !.error = ps[1].error], probes |-> ps]
    ELSE [retry |-> r, probes |-> Invoke(ps, t)]

\* A faulty variant of RetryCatch: the budget is never consulted.
RetryCatchNeverGivesUp(r, ps, e, t) == [retry |-> r, probes |-> Invoke(ps, t)]

\* The catch clause of retry (index.ts:212-216) at time t, for the caught
\* error e: past the budget e is thrown, otherwise the loop calls the callback
\* again.
RetryCatch(r, ps, e, t) ==
    IF t - r.start > r.timeoutMs
    THEN [retry |-> [r EXCEPT !.pc = "thrown", !.error = e], probes |-> ps]
    ELSE [retry |-> r, probes |-> Invoke(ps, t)]

\* The script calls retry(callback, timeoutMs): start is taken and the
\* callback is called for the first time (index.ts:207-211).
Retry(timeoutMs) ==
    /\ retry.pc = "idle"
    /\ now + timeoutMs + TickMs <= MaxTime
    /\ retry' = [pc |-> "probing", start |-> now, timeoutMs |-> timeoutMs,
                 value |-> "none", error |-> "none"]
    /\ probes' = Invoke(probes, now)
    /\ UNCHANGED <<now, sessionVars, ptyVars, testerVars>>

\* A faulty variant of ProbeReturns: a value that comes past the budget is
\* dropped and retry fails.
ProbeReturnsWithinBudget(v) ==
    /\ retry.pc = "probing"
    /\ probes' = [probes EXCEPT ![Len(probes)] =
                     [@ EXCEPT !.outcome = "ok"] @@ [value |-> v, endedAt |-> now]]
    /\ retry' = IF now - retry.start > retry.timeoutMs
                THEN [retry EXCEPT !.pc = "thrown", !.error = "timeout"]
                ELSE [retry EXCEPT !.pc = "returned", !.value = v]
    /\ UNCHANGED <<now, sessionVars, ptyVars, testerVars>>

\* The running invocation of the callback ends with the value v: retry
\* returns it (index.ts:211).
ProbeReturns(v) ==
    /\ retry.pc = "probing"
    /\ probes' = [probes EXCEPT ![Len(probes)] =
                     [@ EXCEPT !.outcome = "ok"] @@ [value |-> v, endedAt |-> now]]
    /\ retry' = [retry EXCEPT !.pc = "returned", !.value = v]
    /\ UNCHANGED <<now, sessionVars, ptyVars, testerVars>>

\* The running invocation of the callback fails with the error e.
ProbeThrows(e) ==
    /\ retry.pc = "probing"
    /\ Len(probes) < MaxAttempts \/ now - retry.start > retry.timeoutMs
    /\ LET ended == [probes EXCEPT ![Len(probes)] =
                        [@ EXCEPT !.outcome = "failed"] @@ [error |-> e, endedAt |-> now]]
           next  == RetryCatch(retry, ended, e, now)
       IN  /\ retry' = next.retry
           /\ probes' = next.probes
    /\ UNCHANGED <<now, sessionVars, ptyVars, testerVars>>

ProbeFails == \E e \in Errors : ProbeThrows(e)

RetryNext ==
    \/ Tick
    \/ \E timeoutMs \in RetryTimeouts : Retry(timeoutMs)
    \/ \E v \in Values : ProbeReturns(v)
    \/ ProbeFails

RetrySpec == Init /\ [][RetryNext]_vars

\* Time passes, and an invocation of the callback that can fail does fail.
RetryFairSpec == RetrySpec /\ WF_vars(Tick) /\ WF_vars(ProbeFails)

\* ------------------------------------------------------------ ShellTester

\* The session names of the model, and the names argv may hold ("u" is the
\* name of no session).
Names == {"s", "t"}
ArgNames == Names \cup {"u"}
Argvs == UNION {[1..k -> ArgNames] : k \in 0..MaxArgs}

\* Array.prototype.includes.
Includes(argv, name) == \E k \in 1..Len(argv) : argv[k] = name

\* A faulty variant of SessionsToRun: the sessions are taken in the order of argv.
RECURSIVE SessionsToRunInArgvOrder(_, _)
SessionsToRunInArgvOrder(defs, argv) ==
    IF Len(argv) = 0 THEN <<>>
    ELSE SelectSeq(defs, LAMBDA d : d.name = Head(argv)
                                    /\ ~Includes(Tail(argv), d.name))
         \o SessionsToRunInArgvOrder(defs, Tail(argv))

\* sessionsToRun of run (index.ts:67-69).
SessionsToRun(defs, argv) ==
    IF Len(argv) # 0
    THEN SelectSeq(defs, LAMBDA d : Includes(argv, d.name))
    ELSE defs

\* The state that run and _runSession work on, as one record.
World ==
    [run |-> run, ptys |-> ptys, term |-> term, stdout |-> stdout, files |-> files,
     callbacks |-> callbacks, lastTime |-> lastTime, output |-> output,
     events |-> events, listeners |-> listeners, calls |-> calls]

Commit(w) ==
    /\ run' = w.run
    /\ ptys' = w.ptys
    /\ term' = w.term
    /\ stdout' = w.stdout
    /\ files' = w.files
    /\ callbacks' = w.callbacks
    /\ lastTime' = w.lastTime
    /\ output' = w.output
    /\ events' = w.events
    /\ listeners' = w.listeners
    /\ calls' = w.calls

\* ptyProcess.kill() on the PTY of the current session.
Kill(ps) == [ps EXCEPT ![Len(ps)].alive = FALSE]

\* The lines capture reads from the viewport of the terminal tm, each line
\* given by its length: line i of the terminal if it has one, else
\* ' '.repeat(cols) (index.ts:264-270).
Text(tm, cols, rows) == [i \in 1..rows |-> IF i <= tm.rows THEN tm.cols ELSE cols]

\* A faulty variant of CaptureFile: ...extra comes last and wins.
CaptureFileExtraWins(c, evs, tm) ==
    [path |-> "tmp/output/" \o c.name \o ".js",
     data |-> c.extra @@ [events |-> evs, cols |-> c.cols, rows |-> c.rows,
                          text |-> Text(tm, c.cols, c.rows)]]

\* The file capture writes (index.ts:273-286).  The fixed fields come after
\* ...extra in the object literal, so they win.
CaptureFile(c, evs, tm) ==
    [path |-> "tmp/output/" \o c.name \o ".js",
     data |-> [events |-> evs, cols |-> c.cols, rows |-> c.rows,
               text |-> Text(tm, c.cols, c.rows)] @@ c.extra]

\* _runSession up to the call of the callback (index.ts:71, 76-88) for the
\* definition at position w.run.i of sessionsToRun, at time t: the line is
\* printed, the PTY is spawned, the ShellSession is constructed and the
\* callback is called.
RunSession(w, t) ==
    LET def == w.run.sessionsToRun[w.run.i]
    IN  [w EXCEPT !.stdout = Append(@, "Running session " \o def.name),
                  !.ptys = Append(@, Spawn),
                  !.term = [cols |-> Cols, rows |-> Rows],
                  !.lastTime = t,
                  !.output = <<>>,
                  !.events = <<[time |-> t, type |-> "started"]>>,
                  !.listeners = <<>>,
                  !.calls = <<>>,
                  !.callbacks = Append(@, [callback |-> def.callback, outcome |-> "running"]),
                  !.run = [@ EXCEPT !.pc = "callback", !.caught = "none"]]

\* The for loop of run goes on to its next element, or run returns
\* (index.ts:70-74).
ForLoop(w, t) ==
    IF w.run.i < Len(w.run.sessionsToRun)
    THEN RunSession([w EXCEPT !.run.i = @ + 1], t)
    ELSE [w EXCEPT !.run.pc = "returned"]

\* A faulty variant of AfterCapture: the PTY of the session is left running.
AfterCaptureNoKill(w, t) ==
    LET c  == w.calls[Len(w.calls)]
        w1 == [w EXCEPT !.files = Append(@, CaptureFile(c, w.events, w.term))]
    IN  IF w.run.caught # "none"
        THEN [w1 EXCEPT !.run = [@ EXCEPT !.pc = "thrown", !.error = w.run.caught]]
        ELSE ForLoop(w1, t)

\* A faulty variant of AfterCapture: the failure of the callback is swallowed.
AfterCaptureSwallows(w, t) ==
    LET c  == w.calls[Len(w.calls)]
        w1 == [w EXCEPT !.files = Append(@, CaptureFile(c, w.events, w.term)),
                        !.ptys = Kill(@)]
    IN  ForLoop(w1, t)

\* The rest of the finally block once the final capture has passed its wait
\* (index.ts:90-92): the file is written, the PTY is killed, and either the
\* failure of the callback goes on out of run or the loop goes on.
AfterCapture(w, t) ==
    LET c  == w.calls[Len(w.calls)]
        w1 == [w EXCEPT !.files = Append(@, CaptureFile(c, w.events, w.term)),
                        !.ptys = Kill(@)]
    IN  IF w.run.caught # "none"
        THEN [w1 EXCEPT !.run = [@ EXCEPT !.pc = "thrown", !.error = w.run.caught]]
        ELSE ForLoop(w1, t)

\* The finally block of _runSession from its start (index.ts:89-90), e being
\* the failure of the callback or "none": capture(name + '_end',
\* {implicit: true}) reads the size of the PTY and waits for stabilization.
FinallyBlock(w, e, t) ==
    LET def == w.run.sessionsToRun[w.run.i]
        pty == w.ptys[Len(w.ptys)]
        c0  == [op |-> "capture", name |-> def.name \o "_end",
                extra |-> [implicit |-> TRUE], cols |-> pty.cols, rows |-> pty.rows,
                awaited |-> TRUE, pc |-> "stabilizing", wakeAt |-> 0]
        c1  == WaitUntilStabilized(c0, w.lastTime, t)
        w1  == [w EXCEPT !.calls = Append(@, c1), !.run.caught = e]
    IN  IF c1.pc = "sleeping"
        THEN [w1 EXCEPT !.run.pc = "capture"]
        ELSE AfterCapture(w1, t)

\* A faulty variant of CallbackEnds: the cleanup is not in a finally block, so a
\* failure of the callback skips it.
CallbackEndsNoFinally(w, e, t) ==
    IF e # "none"
    THEN [w EXCEPT !.run = [@ EXCEPT !.pc = "thrown", !.error = e]]
    ELSE FinallyBlock(w, e, t)

\* `await callback(shellSession)` is over, with the failure e or with "none":
\* either way control enters the finally block (index.ts:87-89).
CallbackEnds(w, e, t) == FinallyBlock(w, e, t)

TesterInit ==
    /\ now = 0
    /\ lastTime = 0
    /\ output = <<>>
    /\ events = <<>>
    /\ listeners = <<>>
    /\ calls = <<>>
    /\ retry = [pc |-> "idle"]
    /\ probes = <<>>
    /\ ptys = <<>>
    /\ term = [cols |-> 0, rows |-> 0]
    /\ sessionsDefinitions = <<>>
    /\ run = [pc |-> "idle"]
    /\ stdout = <<>>
    /\ files = <<>>
    /\ callbacks = <<>>

\* ShellTester.session (index.ts:51-56).  The callback is named by the number
\* of its registration.
Session(name) ==
    /\ run.pc = "idle"
    /\ Len(sessionsDefinitions) < MaxSessions
    /\ sessionsDefinitions' = Append(sessionsDefinitions,
            [name |-> name, callback |-> Len(sessionsDefinitions) + 1])
    /\ UNCHANGED <<now, sessionVars, retryVars, ptyVars, run, stdout, files, callbacks>>

\* ShellTester.run(argv) up to its first await (index.ts:65-72).
Run(argv) ==
    /\ run.pc = "idle"
    /\ Commit(ForLoop([World EXCEPT !.run =
            [pc |-> "loop", argv |-> argv,
             sessionsToRun |-> SessionsToRun(sessionsDefinitions, argv),
             i |-> 0, caught |-> "none", error |-> "none"]], now))
    /\ UNCHANGED <<now, retryVars, sessionsDefinitions>>

\* The callback of the current session returns.
CallbackReturns ==
    /\ run.pc = "callback"
    /\ Commit(CallbackEnds([World EXCEPT !.callbacks[Len(callbacks)].outcome = "ok"],
                           "none", now))
    /\ UNCHANGED <<now, retryVars, sessionsDefinitions>>

\* The callback of the current session fails with the error e.
CallbackThrows(e) ==
    /\ run.pc = "callback"
    /\ Commit(CallbackEnds([World EXCEPT !.callbacks[Len(callbacks)] =
                               [@ EXCEPT !.outcome = "failed"] @@ [error |-> e]],
                           e, now))
    /\ UNCHANGED <<now, retryVars, sessionsDefinitions>>

\* The timer of the final capture's waitUntilStabilized fires.
FinalCaptureWake ==
    /\ run.pc = "capture"
    /\ calls[Len(calls)].pc = "sleeping"
    /\ now >= calls[Len(calls)].wakeAt
    /\ LET c1 == Resume(calls[Len(calls)], lastTime, now)
           w1 == [World EXCEPT !.calls[Len(calls)] = c1]
       IN  Commit(IF c1.pc = "sleeping" THEN w1 ELSE AfterCapture(w1, now))
    /\ UNCHANGED <<now, retryVars, sessionsDefinitions>>

\* The shell of the current session prints while its PTY is alive.
ShellOutput(data) ==
    /\ run.pc \in {"callback", "capture"}
    /\ OnData(data)

\* Time passes during run.
RunTick ==
    /\ run.pc \in {"callback", "capture"}
    /\ Tick

TesterNext ==
    \/ \E name \in Names : Session(name)
    \/ \E argv \in Argvs : Run(argv)
    \/ CallbackReturns
    \/ \E e \in Errors : CallbackThrows(e)
    \/ FinalCaptureWake
    \/ \E data \in Chunks : ShellOutput(data)
    \/ RunTick

TesterSpec == TesterInit /\ [][TesterNext]_vars

\* ------------------------------------------------- send, resize, capture

\* What the script sends: "CR" is the carriage return and "ETX" the control
\* byte \x03, each one character of the string.
SendData == {<<"l", "s", "CR">>, <<"ETX">>}

\* The sizes the script resizes to, as <<cols, rows>>.
Sizes == {<<100, 30>>, <<40, 12>>}

CaptureNames == {"shot"}
\* The extra fields of a capture: one key of its own, or also every key of
\* the fixed fields.
Extras ==
    {[note |-> "n"],
     [note |-> "n", events |-> <<>>, cols |-> 1, rows |-> 2, text |-> <<>>]}
IoPatterns == {<<"a">>}

\* A faulty variant of Write: a line terminator is added to what is sent.
WriteWithNewline(w, c, t) ==
    [w EXCEPT !.ptys[Len(w.ptys)].written = Append(@, c.data \o <<"CR">>),
              !.events = Append(@, [time |-> t, type |-> "send", data |-> c.data])]

\* A faulty variant of Write: sending clears the buffer.
WriteClearsBuffer(w, c, t) ==
    [w EXCEPT !.ptys[Len(w.ptys)].written = Append(@, c.data),
              !.events = Append(@, [time |-> t, type |-> "send", data |-> c.data]),
              !.output = <<>>]

\* A faulty variant of Write: the write is not logged.
WriteWithoutEvent(w, c, t) ==
    [w EXCEPT !.ptys[Len(w.ptys)].written = Append(@, c.data)]

\* send after its wait (index.ts:232-237): ptyProcess.write(data), then the
\* send event.
Write(w, c, t) ==
    [w EXCEPT !.ptys[Len(w.ptys)].written = Append(@, c.data),
              !.events = Append(@, [time |-> t, type |-> "send", data |-> c.data])]

\* A faulty variant of ResizeBoth: the terminal is left at its old size.
ResizePtyOnly(w, c, t) ==
    [w EXCEPT !.ptys[Len(w.ptys)] =
                  [@ EXCEPT !.cols = c.cols, !.rows = c.rows,
                            !.resized = Append(@, <<c.cols, c.rows>>)],
              !.events = Append(@, [time |-> t, type |-> "resize",
                                    cols |-> c.cols, rows |-> c.rows])]

\* resize after its wait (index.ts:161-168): ptyProcess.resize, term.resize,
\* then the resize event.
ResizeBoth(w, c, t) ==
    [w EXCEPT !.ptys[Len(w.ptys)] =
                  [@ EXCEPT !.cols = c.cols, !.rows = c.rows,
                            !.resized = Append(@, <<c.cols, c.rows>>)],
              !.term = [cols |-> c.cols, rows |-> c.rows],
              !.events = Append(@, [time |-> t, type |-> "resize",
                                    cols |-> c.cols, rows |-> c.rows])]

\* A faulty variant of WriteCapture: only the last event is written.
WriteCaptureLastEvent(w, c, t) ==
    [w EXCEPT !.files = Append(@, CaptureFile(c, <<w.events[Len(w.events)]>>, w.term))]

\* A faulty variant of WriteCapture: the capture is logged as an event.
WriteCaptureLogged(w, c, t) ==
    [w EXCEPT !.files = Append(@, CaptureFile(c, w.events, w.term)),
              !.events = Append(@, [time |-> t, type |-> "capture", name |-> c.name])]

\* capture after its wait (index.ts:258-286): the text is read from the
\* terminal and the file is written with this._events as it is by then.
WriteCapture(w, c, t) ==
    [w EXCEPT !.files = Append(@, CaptureFile(c, w.events, w.term))]

\* What call id of the world w does at time t once its wait is over.
AfterWait(w, id, t) ==
    LET c == w.calls[id]
    IN  CASE c.op = "send"    -> Write(w, c, t)
          [] c.op = "resize"  -> ResizeBoth(w, c, t)
          [] c.op = "capture" -> WriteCapture(w, c, t)
          [] OTHER            -> w

\* The script calls a method that starts with
\* `await this._stabilizer.waitUntilStabilized()` (index.ts:160, 231, 257);
\* c0 holds what the method has read before that await.
Call(c0) ==
    /\ Len(calls) < MaxCalls
    /\ ~Blocked
    /\ LET id == Len(calls) + 1
           c1 == WaitUntilStabilized(c0, lastTime, now)
           w1 == [World EXCEPT !.calls = Append(@, c1)]
       IN  Commit(IF c1.pc = "returned" THEN AfterWait(w1, id, now) ELSE w1)
    /\ UNCHANGED <<now, retryVars, sessionsDefinitions>>

\* The script calls send(data) (index.ts:230-239).
Send(data, awaited) ==
    Call([op |-> "send", data |-> data, awaited |-> awaited,
          pc |-> "stabilizing", wakeAt |-> 0])

\* The script calls resize(cols, rows) (index.ts:159-169).
Resize(cols, rows, awaited) ==
    Call([op |-> "resize", cols |-> cols, rows |-> rows, awaited |-> awaited,
          pc |-> "stabilizing", wakeAt |-> 0])

\* The script calls capture(name, extra) (index.ts:254-287): cols and rows are
\* read from the PTY before the wait (index.ts:256).  `before` keeps the log
\* as it is at the call, for the claims to refer to.
Capture(name, extra, awaited) ==
    Call([op |-> "capture", name |-> name, extra |-> extra,
          cols |-> ptys[Len(ptys)].cols, rows |-> ptys[Len(ptys)].rows,
          awaited |-> awaited, pc |-> "stabilizing", wakeAt |-> 0,
          before |-> events])

\* The timer set by waitUntilStabilized fires in a call of any method.
IoWake(id) ==
    /\ calls[id].pc = "sleeping"
    /\ now >= calls[id].wakeAt
    /\ LET c1 == Resume(calls[id], lastTime, now)
           w1 == [World EXCEPT !.calls[id] = c1]
       IN  Commit(IF c1.pc = "returned" THEN AfterWait(w1, id, now) ELSE w1)
    /\ UNCHANGED <<now, retryVars, sessionsDefinitions>>

IoNext ==
    \/ Tick
    \/ \E data \in Chunks : OnData(data)
    \/ \E data \in SendData, awaited \in BOOLEAN : Send(data, awaited)
    \/ \E size \in Sizes, awaited \in BOOLEAN : Resize(size[1], size[2], awaited)
    \/ \E name \in CaptureNames, extra \in Extras, awaited \in BOOLEAN :
          Capture(name, extra, awaited)
    \/ \E str \in IoPatterns, timeoutMs \in Timeouts, awaited \in BOOLEAN :
          Expect(str, timeoutMs, awaited)
    \/ \E id \in DOMAIN calls : calls[id].op = "expect" /\ ExpectTimeout(id)
    \/ \E id \in DOMAIN calls : IoWake(id)

IoSpec == Init /\ [][IoNext]_vars

\* The shell prints, early enough for the window after the chunk to end
\* within the time the model covers.
QuietChunk(data) ==
    /\ now + StabilizeMs <= MaxTime
    /\ OnData(data)

\* What the shell prints, what the script sends and the size it resizes to
\* where only the times matter.
QuietChunks == {<<"a">>}
QuietSendData == {<<"ETX">>}
QuietSizes == {<<40, 12>>}
QuietExtras == {[note |-> "n"]}

QuietNext ==
    \/ Tick
    \/ \E data \in QuietChunks : QuietChunk(data)
    \/ \E data \in QuietSendData, awaited \in BOOLEAN : Send(data, awaited)
    \/ \E size \in QuietSizes, awaited \in BOOLEAN : Resize(size[1], size[2], awaited)
    \/ \E name \in CaptureNames, extra \in QuietExtras, awaited \in BOOLEAN :
          Capture(name, extra, awaited)
    \/ \E id \in DOMAIN calls : IoWake(id)

QuietSpec == Init /\ [][QuietNext]_vars

\* Time passes, and a timer that is due fires.
QuietFairSpec ==
    /\ QuietSpec
    /\ WF_vars(Tick)
    /\ \A id \in 1..MaxCalls : WF_vars(id \in DOMAIN calls /\ IoWake(id))

\* ------------------------------------------------ vocabulary of the claims

\* p occurs in s at index i (from 0).
OccursAt(s, p, i) ==
    /\ i >= 0
    /\ i + Len(p) <= Len(s)
    /\ \A k \in 1..Len(p) : s[i + k] = p[k]

Occurs(s, p) == \E i \in 0..Len(s) : OccursAt(s, p, i)

\* The number of occurrences of p in s.
Count(s, p) == Cardinality({i \in 0..Len(s) : OccursAt(s, p, i)})

\* rest is what follows the end of the first occurrence of p in s.
IsRestAfterFirst(s, p, rest) ==
    \E i \in 0..Len(s) :
        /\ OccursAt(s, p, i)
        /\ \A j \in 0..(i - 1) : ~OccursAt(s, p, j)
        /\ Len(rest) = Len(s) - (i + Len(p))
        /\ \A k \in 1..Len(rest) : rest[k] = s[i + Len(p) + k]

\* The inbound stream so far: the data of the output events, in log order.
RECURSIVE StreamOf(_)
StreamOf(evs) ==
    IF evs = <<>> THEN <<>>
    ELSE (IF Head(evs).type = "output" THEN Head(evs).data ELSE <<>>) \o StreamOf(Tail(evs))

Stream == StreamOf(events)

InRegistry(id) == \E k \in 1..Len(listeners) : listeners[k] = id

\* The time at which call id was made.
CalledAt(id) == calls[id].deadline - calls[id].timeoutMs

\* --------------------------------------------------------------------- C1
\* C1: when expect(P) is called and P occurs in the output buffer, the promise
\* of the call is fulfilled in that very step (no chunk is needed), the call
\* goes on to its wait for stabilization, and the buffer becomes exactly what
\* followed the end of the first occurrence of P.
C1_ExpectPresentPattern ==
    [][\A id \in DOMAIN calls' :
          (id \notin DOMAIN calls /\ Occurs(output, calls'[id].str))
          => /\ calls'[id].promise = "fulfilled"
             /\ calls'[id].pc \in {"sleeping", "returned"}
             /\ IsRestAfterFirst(output, calls'[id].str, output')
             /\ events' = events]_vars

\* A call was fulfilled by what the buffer held when it was made (no chunk has
\* arrived since the call), its pattern was the second byte of the buffer "ab"
\* and nothing is left of the buffer.
C1_Witness ==
    \E id \in DOMAIN calls :
        /\ calls[id].promise = "fulfilled"
        /\ calls[id].str = <<"b">>
        /\ Stream = <<"a", "b">>
        /\ lastTime < CalledAt(id)
        /\ output = <<>>
        /\ \A other \in DOMAIN calls : other # id => calls[other].found = 0

\* --------------------------------------------------------------------- C2
\* C2: a call whose timer has run out without its pattern ever having been
\* found has failed with the error that carries its pattern, and it is no
\* longer in the waiter registry; the same holds of every rejected call.
C2_TimeoutFailsAndDeregisters ==
    \A id \in DOMAIN calls :
        ((calls[id].found = 0 /\ ~calls[id].timer) \/ calls[id].promise = "rejected")
        => /\ calls[id].promise = "rejected"
           /\ calls[id].pc = "thrown"
           /\ calls[id].error.kind = "Error"
           /\ calls[id].error.expected = calls[id].str
           /\ ~InRegistry(id)

\* A call for "ab" has timed out although the stream brought "a" in time.
C2_Witness ==
    \E id \in DOMAIN calls :
        /\ calls[id].promise = "rejected"
        /\ calls[id].str = <<"a", "b">>
        /\ Stream = <<"a">>
        /\ lastTime > CalledAt(id)
        /\ now >= calls[id].deadline

\* --------------------------------------------------------------------- C3
\* C3: once a call has timed out it stays failed, its closure is never run
\* again (it finds nothing and so truncates nothing), and a chunk that arrives
\* later and holds its pattern stays in the buffer unless another waiter
\* consumes it.
C3_TimedOutStaysTimedOut ==
    [][\A id \in DOMAIN calls :
          calls[id].promise = "rejected"
          => /\ calls'[id] = calls[id]
             /\ calls'[id].found = 0
             /\ ~\E k \in 1..Len(listeners') : listeners'[k] = id
             /\ (\A other \in DOMAIN calls' : calls'[other].promise = "rejected")
                => \E k \in 0..Len(output') : output = SubSeq(output', 1, k)]_vars

\* A call for "b" has timed out, and "b" arrived afterwards: the call is still
\* failed and "b" is still in the buffer.
C3_Witness ==
    \E id \in DOMAIN calls :
        /\ calls[id].promise = "rejected"
        /\ calls[id].str = <<"b">>
        /\ lastTime > calls[id].deadline
        /\ Stream = <<"b">>
        /\ output = <<"b">>

\* --------------------------------------------------------------------- C4
\* Calls i and j are two awaited expect calls for the same pattern, i before j:
\* the script made j after i had returned or thrown.
OneAfterTheOther(i, j) ==
    /\ i < j
    /\ calls[i].awaited /\ calls[j].awaited
    /\ calls[i].op = "expect" /\ calls[j].op = "expect"
    /\ calls[i].str = calls[j].str

\* C4 as stated, for a non-empty X: when X occurs exactly once in the whole
\* stream and expect(X) was called twice one after the other, the first call
\* succeeded and the second, once settled, has timed out.  (For the empty X
\* and the empty stream it fails as well: both calls succeed.)
C4_AsStated ==
    \A i, j \in DOMAIN calls :
        (OneAfterTheOther(i, j) /\ Count(Stream, calls[i].str) = 1
            /\ calls[i].str # <<>> /\ calls[j].promise # "pending")
        => (calls[i].promise = "fulfilled" /\ calls[j].promise = "rejected")

\* C4 as amended: when a non-empty X occurs exactly once in the whole stream,
\* expect(X) was called twice one after the other and the first call succeeded,
\* the second call never finds X: it stays pending until its timer runs out
\* and then fails.
C4_SecondCallTimesOut ==
    \A i, j \in DOMAIN calls :
        (OneAfterTheOther(i, j) /\ Count(Stream, calls[i].str) = 1
            /\ calls[i].str # <<>> /\ calls[i].promise = "fulfilled")
        => /\ calls[j].found = 0
           /\ calls[j].promise # "fulfilled"
           /\ (~calls[j].timer => calls[j].promise = "rejected")
           /\ ~Occurs(output, calls[i].str)

\* The first call for "a" has succeeded and returned, the second has timed
\* out, and the stream holds "a" once.
C4_Witness ==
    \E i, j \in DOMAIN calls :
        /\ OneAfterTheOther(i, j)
        /\ calls[i].str = <<"a">>
        /\ Count(Stream, <<"a">>) = 1
        /\ calls[i].pc = "returned"
        /\ calls[j].pc = "thrown"

\* --------------------------------------------------------------------- C5
\* C5: in the step in which a call leaves waitUntilStabilized (it was waiting
\* or had just been fulfilled, and is now returned), the time is at least
\* _lastTime + 100, with _lastTime as it is at that moment.
C5_NeverReturnsEarly ==
    [][\A id \in DOMAIN calls' :
          (calls'[id].pc = "returned"
              /\ (id \in DOMAIN calls => calls[id].pc # "returned"))
          => now' >= lastTime' + StabilizeMs]_vars

\* A call has returned from a wait during which a chunk arrived: it was
\* fulfilled before the last chunk and slept until 100 ms after that chunk.
C5_Witness ==
    \E id \in DOMAIN calls :
        /\ calls[id].pc = "returned"
        /\ NumChunks = 2
        /\ events[2].time < events[3].time
        /\ events[3].time < events[2].time + StabilizeMs
        /\ Occurs(events[2].data, calls[id].str)
        /\ CalledAt(id) < events[3].time
        /\ calls[id].wakeAt = events[3].time + StabilizeMs
        /\ now = calls[id].wakeAt

\* --------------------------------------------------------------------- C6
Last(ps) == ps[Len(ps)]

\* C6: retry ends by returning or by throwing, never both.  When it has
\* returned, its value is that of the last invocation, which succeeded and is
\* the first to have done so.  When it has thrown, every invocation failed,
\* the error is that of the last one, and at least timeoutMs had passed since
\* retry was called when that invocation failed.
C6_RetryOutcome ==
    /\ retry.pc = "returned" =>
          /\ Last(probes).outcome = "ok"
          /\ retry.value = Last(probes).value
          /\ retry.error = "none"
          /\ \A k \in 1..(Len(probes) - 1) : probes[k].outcome = "failed"
    /\ retry.pc = "thrown" =>
          /\ \A k \in 1..Len(probes) : probes[k].outcome = "failed"
          /\ retry.error = Last(probes).error
          /\ retry.value = "none"
          /\ Last(probes).endedAt - retry.start >= retry.timeoutMs
          /\ probes[1].startedAt = retry.start

\* retry has thrown the error of its third invocation, which differs from the
\* errors of the first two.
C6_Witness ==
    /\ retry.pc = "thrown"
    /\ Len(probes) = 3
    /\ retry.error = "e2"
    /\ probes[1].error = "e1"
    /\ probes[2].error = "e1"

\* --------------------------------------------------------------------- C7
\* No invocation of the callback starts after the budget has passed, and a
\* failure seen after the budget ends retry with that failure.
C7_Safety ==
    /\ \A k \in 1..Len(probes) : probes[k].startedAt - retry.start <= retry.timeoutMs
    /\ \A k \in 1..Len(probes) :
          (probes[k].outcome = "failed"
              /\ probes[k].endedAt - retry.start > retry.timeoutMs)
          => (k = Len(probes) /\ retry.pc = "thrown")

\* C7: retry gives up once timeoutMs has elapsed: it never calls the callback
\* again after a failure that comes later than timeoutMs after its start, and
\* as long as the callback keeps failing, retry ends by failing.
C7_RetryGivesUp ==
    /\ [](retry.pc # "idle" => C7_Safety)
    /\ (retry.pc = "probing") ~> (retry.pc \in {"returned", "thrown"})

\* retry has given up after two failures, the second of them past the budget.
C7_Witness ==
    /\ retry.pc = "thrown"
    /\ retry.timeoutMs = 100
    /\ Len(probes) = 2
    /\ probes[2].startedAt - retry.start <= 100
    /\ probes[2].endedAt - retry.start > 100

\* --------------------------------------------------------------------- C8
\* The name under which the callback of invocation k was registered.
NameOfInvocation(k) == sessionsDefinitions[callbacks[k].callback].name

\* The file that the final capture of invocation k writes.
IsFinalCapture(f, k) ==
    /\ f.path = "tmp/output/" \o NameOfInvocation(k) \o "_end.js"
    /\ f.data.implicit = TRUE

\* C8: every session that run starts has one PTY and one invocation of its
\* callback.  Once that invocation is over, by return or by failure, the
\* final capture is under way or done; a PTY is killed only when the final
\* capture of its session has been written; only the PTY of the current
\* session is ever alive; and when run is over no PTY is alive.
C8_CleanupOnEveryExit ==
    /\ Len(ptys) = Len(callbacks)
    /\ \A k \in 1..Len(ptys) :
          /\ ~ptys[k].alive <=> (Len(files) >= k /\ callbacks[k].outcome # "running")
          /\ Len(files) >= k => IsFinalCapture(files[k], k)
          /\ (callbacks[k].outcome # "running" /\ ptys[k].alive)
             => /\ k = Len(ptys)
                /\ run.pc = "capture"
                /\ calls[Len(calls)].op = "capture"
                /\ calls[Len(calls)].pc = "sleeping"
                /\ calls[Len(calls)].name = NameOfInvocation(k) \o "_end"
                /\ calls[Len(calls)].extra = [implicit |-> TRUE]
          /\ ptys[k].alive => k = Len(ptys)
    /\ run.pc \in {"returned", "thrown"} =>
          /\ Len(files) = Len(ptys)
          /\ \A k \in 1..Len(ptys) : ~ptys[k].alive

\* The callback of the second session has failed; both final captures are
\* written and both PTYs are dead.
C8_Witness ==
    /\ run.pc = "thrown"
    /\ Len(callbacks) = 2
    /\ callbacks[1].outcome = "ok"
    /\ callbacks[2].outcome = "failed"
    /\ Len(files) = 2
    /\ files[2].path = "tmp/output/t_end.js"
    /\ ~ptys[1].alive /\ ~ptys[2].alive
    /\ Len(files[2].data.events) > 1

\* --------------------------------------------------------------------- C9
\* C9: a failed invocation of a callback is the last one: no line is printed,
\* no PTY is spawned and no callback is called after it; run ends by throwing
\* exactly when a callback has failed, and it throws the error of that
\* callback.
C9_FailureAbortsRun ==
    /\ \A k \in 1..Len(callbacks) :
          callbacks[k].outcome = "failed"
          => /\ k = Len(callbacks)
             /\ Len(ptys) = k
             /\ Len(stdout) = k
             /\ run.pc \in {"capture", "thrown"}
             /\ run.pc = "thrown" => run.error = callbacks[k].error
    /\ run.pc = "thrown" =>
          /\ Len(callbacks) >= 1
          /\ callbacks[Len(callbacks)].outcome = "failed"
    /\ run.pc = "returned" =>
          \A k \in 1..Len(callbacks) : callbacks[k].outcome = "ok"

\* Two sessions were to run, the first has failed with e2, and run has thrown
\* e2 without starting the second.
C9_Witness ==
    /\ run.pc = "thrown"
    /\ run.error = "e2"
    /\ Len(run.sessionsToRun) = 2
    /\ Len(callbacks) = 1
    /\ Len(ptys) = 1
    /\ stdout = <<"Running session s">>

\* -------------------------------------------------------------------- C10
\* The registrations that run(argv) is to execute.
Selected ==
    {d \in 1..Len(sessionsDefinitions) :
        \/ run.argv = <<>>
        \/ \E j \in 1..Len(run.argv) : run.argv[j] = sessionsDefinitions[d].name}

\* C10: the k-th callback that run calls is the k-th selected registration in
\* registration order, and the line printed for it holds its name; when run
\* has returned, every selected registration has been called, once.
C10_RunsSelectedInOrder ==
    run.pc # "idle" =>
        /\ \A k \in 1..Len(callbacks) :
              /\ callbacks[k].callback \in Selected
              /\ Cardinality({d \in Selected : d < callbacks[k].callback}) = k - 1
              /\ stdout[k] = "Running session " \o NameOfInvocation(k)
        /\ Len(stdout) = Len(callbacks)
        /\ run.pc = "returned" => Len(callbacks) = Cardinality(Selected)

\* run(["t", "s"]) has returned after running s and then t, the order of
\* their registration.
C10_Witness ==
    /\ run.pc = "returned"
    /\ run.argv = <<"t", "s">>
    /\ stdout = <<"Running session s", "Running session t">>

\* --------------------------------------------- send, resize, capture claims

\* The events of one type, in log order.
EventsOfType(type) == SelectSeq(events, LAMBDA e : e.type = type)

\* The PTY of the session.
Pty == ptys[Len(ptys)]

\* The calls of one method that have returned.
Returned(op) == {i \in DOMAIN calls : calls[i].op = op /\ calls[i].pc = "returned"}

\* C11: send(data) forwards exactly data to the PTY, with nothing added, and
\* appends exactly one send event whose data is data, control bytes included:
\* what the PTY has been written is, in order, the data of the send events,
\* and for each string there are as many send events with it as there are
\* calls of send with it that have returned.
C11_SendForwardsVerbatim ==
    LET sends == EventsOfType("send")
    IN  /\ Pty.written = [k \in 1..Len(sends) |-> sends[k].data]
        /\ \A d \in SendData :
              Cardinality({i \in Returned("send") : calls[i].data = d})
                = Cardinality({k \in 1..Len(sends) : sends[k].data = d})

C11_Witness ==
    /\ Returned("send") = {1, 2}
    /\ Pty.written = << <<"l", "s", "CR">>, <<"ETX">> >>
    /\ EventsOfType("send")[2].data = <<"ETX">>

\* The size <<cols, rows>> asked for by the last call of resize made before
\* call id, or the size the PTY was spawned with.
SizeAskedBefore(id) ==
    LET js == {j \in 1..(id - 1) : calls[j].op = "resize"}
    IN  IF js = {} THEN <<Cols, Rows>>
        ELSE LET j == CHOOSE j \in js : \A i \in js : i <= j
             IN  <<calls[j].cols, calls[j].rows>>

\* The size of the last resize event, or the size the PTY was spawned with.
SizeLogged ==
    LET rs == EventsOfType("resize")
    IN  IF rs = <<>> THEN <<Cols, Rows>> ELSE <<rs[Len(rs)].cols, rs[Len(rs)].rows>>

\* The k-th call of capture, in the order of the calls.
KthCapture(k) ==
    LET ids == {i \in DOMAIN calls : calls[i].op = "capture"}
    IN  CHOOSE i \in ids : Cardinality({j \in ids : j <= i}) = k

\* C12: resize(cols, rows) sets the size of both the PTY and the terminal and
\* appends one resize event with cols and rows, so that a capture made after
\* resize(c, r) has returned gives r lines of length c.  The PTY and the
\* terminal always have the size of the last resize event, there is one
\* resize event for each call of resize that has returned, and in a script
\* that awaits its resizes and captures every written capture has the size
\* asked for by the last resize before it, in its cols and rows and in its
\* text.
C12_ResizeSetsBothSizes ==
    /\ <<Pty.cols, Pty.rows>> = SizeLogged
    /\ <<term.cols, term.rows>> = SizeLogged
    /\ \A size \in Sizes :
          Cardinality({i \in Returned("resize") : <<calls[i].cols, calls[i].rows>> = size})
            = Cardinality({k \in 1..Len(EventsOfType("resize")) :
                             <<EventsOfType("resize")[k].cols,
                               EventsOfType("resize")[k].rows>> = size})
    /\ (\A i \in DOMAIN calls : calls[i].op \in {"resize", "capture"} => calls[i].awaited)
       => \A k \in 1..Len(files) :
             LET size == SizeAskedBefore(KthCapture(k))
             IN  /\ files[k].data.cols = size[1]
                 /\ files[k].data.rows = size[2]
                 /\ files[k].data.text = [i \in 1..size[2] |-> size[1]]

C12_Witness ==
    /\ Len(calls) = 2
    /\ calls[1].op = "resize" /\ calls[1].awaited
    /\ <<calls[1].cols, calls[1].rows>> = <<100, 30>>
    /\ calls[2].op = "capture" /\ calls[2].awaited /\ calls[2].pc = "returned"
    /\ Len(files) = 1
    /\ Len(files[1].data.text) = 30
    /\ \A i \in 1..30 : files[1].data.text[i] = 100

\* C13: every capture record has a text of exactly rows lines, each of length
\* exactly cols, rows and cols being the values of that same record, also
\* when a resize completes while capture is waiting for stabilization.
C13_TextMatchesRecordedSize ==
    \A k \in 1..Len(files) :
       /\ Len(files[k].data.text) = files[k].data.rows
       /\ \A i \in 1..Len(files[k].data.text) :
             files[k].data.text[i] = files[k].data.cols

\* s is a prefix of t.
IsPrefix(s, t) == Len(s) <= Len(t) /\ SubSeq(t, 1, Len(s)) = s

\* Call id returns in this step.
Returns(id) ==
    /\ id \in DOMAIN calls'
    /\ calls'[id].pc = "returned"
    /\ (id \in DOMAIN calls => calls[id].pc # "returned")

C15_ReturnsAfterQuiet ==
    [][\A id \in DOMAIN calls' :
          (calls'[id].op = "expect" /\ Returns(id))
          => \A k \in DOMAIN events' :
                events'[k].type = "output" => now' >= events'[k].time + StabilizeMs]_vars

\* expect("a") called at 0 finds "a" in the chunk of time 0; another chunk
\* comes at 50, and the call returns at 150.
C15_Witness ==
    /\ calls # <<>>
    /\ calls[1].str = <<"a">> /\ CalledAt(1) = 0
    /\ calls[1].promise = "fulfilled" /\ calls[1].pc = "returned"
    /\ Len(events) = 3
    /\ events[2] = [time |-> 0, type |-> "output", data |-> <<"a">>]
    /\ events[3] = [time |-> 50, type |-> "output", data |-> <<"b">>]
    /\ now = 150

\* The number of bytes of the inbound stream that are no longer in the buffer.
Consumed == Len(Stream) - Len(output)

\* The calls of expect that find their pattern in this step.
Matching ==
    {id \in DOMAIN calls' :
        /\ calls'[id].op = "expect"
        /\ calls'[id].found = 1
        /\ (id \in DOMAIN calls => calls[id].found = 0)}

\* The sum of the lengths of the patterns of the calls ids of cs.
RECURSIVE PatternBytes(_, _)
PatternBytes(cs, ids) ==
    IF ids = {} THEN 0
    ELSE LET id == CHOOSE id \in ids : TRUE
         IN  Len(cs[id].str) + PatternBytes(cs, ids \ {id})

\* C16: successive expect calls match in stream order: the buffer is always
\* the part of the inbound stream after the consumed position, that position
\* never moves backwards and moves only when a call matches, and every call
\* that matches in a step matches an occurrence of its pattern lying wholly
\* between the old and the new position, those bytes being enough for all
\* the calls matching in the step, so no byte is matched twice.
C16_MatchesInStreamOrder ==
    [][/\ Consumed' >= Consumed
       /\ output' = SubSeq(Stream', Consumed' + 1, Len(Stream'))
       /\ Matching = {} => Consumed' = Consumed
       /\ Consumed' >= Consumed + PatternBytes(calls', Matching)
       /\ \A id \in Matching :
             \E i \in Consumed..Consumed' :
                /\ i + Len(calls'[id].str) <= Consumed'
                /\ OccursAt(Stream', calls'[id].str, i)
       /\ \A id \in Matching :
             Matching = {id}
             => OccursAt(Stream', calls'[id].str, Consumed' - Len(calls'[id].str))]_vars

\* Two awaited calls of expect("a") on the stream "aa": the first has matched
\* the first "a", the second the second one.
C16_Witness ==
    /\ Len(calls) = 2
    /\ \A id \in {1, 2} : /\ calls[id].str = <<"a">> /\ calls[id].awaited
                          /\ calls[id].found = 1 /\ calls[id].pc = "returned"
    /\ Stream = <<"a", "a">>
    /\ Consumed = 2

\* A chunk arrives in this step.
ChunkArrives == Len(events') = Len(events) + 1 /\ events'[Len(events')].type = "output"

\* The buffer as the listeners of this step's chunk find it at first.
BufferWithChunk == output \o events'[Len(events')].data

\* Call id settles as found in this step.
Resolves(id) == calls[id].promise = "pending" /\ calls'[id].promise = "fulfilled"

\* C17 as stated: no two waiters interact, so a registered waiter resolves at
\* a chunk whenever its own pattern occurs in the buffer with that chunk,
\* whatever other waiters there are.
C17_AsStated ==
    [][ChunkArrives
       => \A k \in 1..Len(listeners) :
             Occurs(BufferWithChunk, calls[listeners[k]].str) => Resolves(listeners[k])]_vars

\* C17, amended: the waiters share the buffer and are checked in the order of
\* their registration.  At a chunk a waiter resolves only if its pattern
\* occurs in the buffer with the chunk; the first registered waiter resolves
\* whenever it does; a later waiter whose pattern occurs there can stay
\* pending, but only when a waiter registered before it has resolved at the
\* same chunk and cut the buffer; and no waiter is left registered with its
\* pattern in the buffer.
C17_InteractThroughBuffer ==
    [][ChunkArrives
       => /\ \A k \in 1..Len(listeners) :
                LET id == listeners[k]
                IN  /\ Resolves(id) => Occurs(BufferWithChunk, calls[id].str)
                    /\ (Occurs(BufferWithChunk, calls[id].str) /\ ~Resolves(id))
                       => \E j \in 1..(k - 1) : Resolves(listeners[j])
          /\ \A k \in 1..Len(listeners') : ~Occurs(output', calls'[listeners'[k]].str)]_vars

\* expect("b") and expect("ab") were registered in this order before the
\* stream "a", "b": the first has resolved and emptied the buffer, the second
\* is still registered though "ab" has passed.
C17_Witness ==
    /\ Len(calls) = 2
    /\ calls[1].str = <<"b">> /\ calls[1].promise = "fulfilled"
    /\ calls[2].str = <<"a", "b">> /\ calls[2].promise = "pending"
    /\ listeners = <<2>>
    /\ Stream = <<"a", "b">>
    /\ CalledAt(2) <= events[2].time
    /\ output = <<>>

\* C18: each chunk is processed at once and in arrival order.  The data of
\* the output events, in log order, are the chunks the PTY has emitted, in
\* order, one event for one chunk.  In the step of a chunk the stabilizer is
\* debounced to the time of the chunk, the event of the chunk is appended to
\* the log, and the waiters are called with the chunk already in the buffer:
\* none is left registered with its pattern in the buffer, and a waiter that
\* resolves starts its 100 ms wait from this chunk.  No other step changes
\* the log of output events or the time of the stabilizer.
C18_ChunksInOrder ==
    /\ [](LET outs == EventsOfType("output")
          IN  Pty.emitted = [k \in 1..Len(outs) |-> outs[k].data])
    /\ [][/\ ChunkArrives
             => /\ Len(Pty.emitted') = Len(Pty.emitted) + 1
                /\ events' = Append(events, [time |-> now, type |-> "output",
                                             data |-> Pty.emitted'[Len(Pty.emitted')]])
                /\ lastTime' = now
                /\ Stream' = Stream \o events'[Len(events')].data
                /\ \A k \in 1..Len(listeners') :
                      ~Occurs(output', calls'[listeners'[k]].str)
                /\ \A id \in DOMAIN calls :
                      Resolves(id) => /\ calls'[id].pc = "sleeping"
                                      /\ calls'[id].wakeAt = now + StabilizeMs
          /\ ~ChunkArrives
             => /\ Pty.emitted' = Pty.emitted
                /\ lastTime' = lastTime
                /\ Stream' = Stream]_vars

\* The chunks "a" and "b" arrived at different times, and a waiter for "ab",
\* registered before them, resolved at the second.
C18_Witness ==
    /\ Pty.emitted = << <<"a">>, <<"b">> >>
    /\ Len(events) = 3
    /\ events[2].time < events[3].time
    /\ calls # <<>>
    /\ calls[1].str = <<"a", "b">> /\ calls[1].promise = "fulfilled"
    /\ CalledAt(1) <= events[2].time
    /\ calls[1].wakeAt = events[3].time + StabilizeMs

\* C19: a pending expect(P) resolves at the first chunk after which P occurs
\* in the buffer, also when P comes split over several chunks, and then
\* cuts the buffer to what follows the first occurrence of P.  At a chunk the
\* waiter registered first resolves exactly if its pattern occurs in the
\* buffer with the chunk; when it is the only waiter, the buffer after the
\* step is what follows the first occurrence if it resolves, and the buffer
\* with the chunk if it does not; a waiter that resolves leaves the registry.
C19_PendingResolvesAtFirstMatch ==
    [][(ChunkArrives /\ listeners # <<>>)
       => LET id == listeners[1]
              P  == calls[id].str
          IN  /\ Resolves(id) <=> Occurs(BufferWithChunk, P)
              /\ Resolves(id) => \A k \in 1..Len(listeners') : listeners'[k] # id
              /\ (Len(listeners) = 1 /\ Resolves(id))
                 => IsRestAfterFirst(BufferWithChunk, P, output')
              /\ (Len(listeners) = 1 /\ ~Resolves(id))
                 => /\ output' = BufferWithChunk
                    /\ listeners' = listeners]_vars

\* expect("ab"), called on an empty buffer, has resolved on the chunks "a"
\* and "b" and has left the buffer empty.
C19_Witness ==
    /\ Len(calls) = 1
    /\ calls[1].str = <<"a", "b">>
    /\ CalledAt(1) = 0
    /\ events[Len(events)].time > 0
    /\ Stream = <<"a", "b">>
    /\ calls[1].found = 1
    /\ listeners = <<>>
    /\ output = <<>>

\* C20: every call of expect is Matching, then Resolved or TimedOut, and
\* settles at most once.  A call whose promise is pending is registered with
\* its timer set; a settled call is not registered and has no timer left, so
\* neither a chunk nor the deadline can reach it again; a resolved call has
\* matched exactly once and carries no error, a timed-out call has never
\* matched and carries its error; and no step changes the promise, the match
\* or the error of a settled call.
C20_SettlesAtMostOnce ==
    /\ [](\A id \in DOMAIN calls :
             LET c == calls[id]
             IN  /\ c.promise \in {"pending", "fulfilled", "rejected"}
                 /\ c.promise = "pending"
                    => (c.pc = "matching" /\ InRegistry(id) /\ c.timer /\ c.found = 0)
                 /\ c.promise # "pending" => (~InRegistry(id) /\ ~c.timer)
                 /\ c.promise = "fulfilled" => (c.found = 1 /\ c.error = NoError)
                 /\ c.promise = "rejected"
                    => (c.found = 0 /\ c.error = NotFoundError(c.str)))
    /\ [][\A id \in DOMAIN calls :
             calls[id].promise # "pending"
             => /\ calls'[id].promise = calls[id].promise
                /\ calls'[id].found = calls[id].found
                /\ calls'[id].error = calls[id].error
                /\ calls'[id].pc # "matching"]_vars

\* expect("a") has resolved and its deadline has passed since; expect("b")
\* has timed out, and the "b" that came afterwards lies in the buffer.
C20_Witness ==
    /\ Len(calls) = 2
    /\ calls[1].str = <<"a">> /\ calls[1].promise = "fulfilled"
    /\ now >= calls[1].deadline
    /\ calls[2].str = <<"b">> /\ calls[2].promise = "rejected"
    /\ calls[2].pc = "thrown"
    /\ output = <<"b">>
    /\ listeners = <<>>

\* ------------------------------------------------ claims on the barrier

\* At least 100 ms have passed at time t since every output event of the log
\* and since the session was created.
QuietAt(t) ==
    \A k \in DOMAIN events :
       events[k].type \in {"started", "output"} => t >= events[k].time + StabilizeMs

\* C21: every outbound operation passes the stabilization barrier first: a
\* step that writes to the PTY, that resizes the PTY or the terminal, or that
\* writes a capture is taken only when at least 100 ms have passed since the
\* last chunk and since the creation of the session.
C21_BarrierBeforeEffect ==
    [][(\/ Pty.written' # Pty.written
        \/ <<Pty.cols, Pty.rows>>' # <<Pty.cols, Pty.rows>>
        \/ term' # term
        \/ Len(EventsOfType("resize"))' # Len(EventsOfType("resize"))
        \/ files' # files)
       => QuietAt(now)]_vars

\* A send was held back by the chunk of time 50 and reached the PTY at 150; a
\* capture was written after it.
C21_Witness ==
    /\ Len(events) = 3
    /\ events[2].type = "output" /\ events[2].time = 50
    /\ events[3].type = "send" /\ events[3].time = 150
    /\ Len(Pty.written) = 1
    /\ Len(files) = 1
    /\ Len(files[1].data.events) = 3

\* C22: for send and resize, reaching the PTY and appending the event are
\* one step that no chunk can come into.  In every state the writes
\* delivered to the PTY are the data of the send events and the resizes
\* delivered to it are the sizes of the resize events, in order and in
\* number; so whenever a chunk arrives, every write and resize the PTY has
\* got by then already has its event, and the output event of the chunk is
\* appended behind them.
C22_EffectAndEventTogether ==
    /\ [](LET sends   == EventsOfType("send")
              resizes == EventsOfType("resize")
          IN  /\ Pty.written = [k \in 1..Len(sends) |-> sends[k].data]
              /\ Pty.resized = [k \in 1..Len(resizes) |->
                                   <<resizes[k].cols, resizes[k].rows>>])
    /\ [][ChunkArrives
          => /\ Len(EventsOfType("send")) = Len(Pty.written)
             /\ Len(EventsOfType("resize")) = Len(Pty.resized)
             /\ SubSeq(events', 1, Len(events)) = events
             /\ Pty.written' = Pty.written
             /\ Pty.resized' = Pty.resized]_vars

\* A send and a resize have reached the PTY, and a chunk came after each.
C22_Witness ==
    /\ Len(events) = 5
    /\ events[2].type = "send" /\ events[3].type = "output"
    /\ events[4].type = "resize" /\ events[5].type = "output"
    /\ Len(Pty.written) = 1 /\ Len(Pty.resized) = 1

\* ----------------------------------------- claims on the log and the buffer

\* A call of method op returns in this step.
SomeReturns(op) == \E id \in DOMAIN calls' : calls'[id].op = op /\ Returns(id)

\* C23: the event log is append-only.  It starts with the one started event
\* of the session; every step leaves the events it has in place and adds at
\* most one at the end; the event added is the output event of a chunk, the
\* send event of a send that returns or the resize event of a resize that
\* returns; and a step in which only an expect is called, times out or
\* returns, or in which a capture is written, adds none.
C23_LogAppendOnly ==
    /\ [](/\ events # <<>>
          /\ events[1].type = "started"
          /\ \A k \in 2..Len(events) : events[k].type \in {"output", "send", "resize"})
    /\ [][/\ IsPrefix(events, events')
          /\ Len(events') <= Len(events) + 1
          /\ events' # events
             => LET e == events'[Len(events')]
                IN  \/ e.type = "output" /\ ChunkArrives
                    \/ e.type = "send" /\ SomeReturns("send")
                    \/ e.type = "resize" /\ SomeReturns("resize")
          /\ (files' # files \/ SomeReturns("capture")) => events' = events
          /\ (~ChunkArrives /\ ~SomeReturns("send") /\ ~SomeReturns("resize"))
             => events' = events]_vars

\* An expect has matched a chunk and returned, a capture has been written,
\* and the log holds the started event and the chunk only.
C23_Witness ==
    /\ Len(calls) = 2
    /\ calls[1].op = "expect" /\ calls[1].pc = "returned"
    /\ calls[2].op = "capture" /\ calls[2].pc = "returned"
    /\ Len(files) = 1
    /\ Len(events) = 2
    /\ events[2].type = "output"
    /\ files[1].data.events = events

\* C24: the buffer never shrinks except by the consumption of a successful
\* expect.  In a step in which no expect finds its pattern the buffer stays
\* as it is, or, if a chunk arrives, becomes the buffer with the chunk
\* appended: so send, resize, capture and a timed-out expect leave it
\* unchanged.  The buffer gets shorter only in a step in which an expect
\* finds its pattern.
C24_BufferShrinksOnlyByMatch ==
    [][/\ (Matching = {} /\ ChunkArrives) => output' = BufferWithChunk
       /\ (Matching = {} /\ ~ChunkArrives) => output' = output
       /\ Len(output') < Len(output) => Matching # {}
       /\ Len(output') > Len(output) => ChunkArrives]_vars

\* Two chunks "b" lie in the buffer although an expect("a") has timed out
\* and a send has reached the PTY since.
C24_Witness ==
    /\ Len(calls) = 2
    /\ calls[1].op = "expect" /\ calls[1].promise = "rejected"
    /\ calls[2].op = "send" /\ calls[2].pc = "returned"
    /\ Stream = <<"b", "b">>
    /\ CalledAt(1) >= events[3].time
    /\ output = <<"b", "b">>

\* ------------------------------------------------------------ claims on run

\* The PTYs that have been spawned and not killed.
Alive == {k \in DOMAIN ptys : ptys[k].alive}

\* C25: run executes the sessions one at a time.  At most one PTY is alive;
\* while one is alive run is inside its session, and it is the PTY spawned
\* last; and a step that spawns a PTY spawns one only, when every PTY
\* spawned before has been killed, the final capture of every session
\* before has been written and every callback before has returned.
C25_OneSessionAtATime ==
    /\ [](/\ Cardinality(Alive) <= 1
          /\ Alive # {} => (Alive = {Len(ptys)} /\ run.pc \in {"callback", "capture"}))
    /\ [][Len(ptys') # Len(ptys)
          => /\ Len(ptys') = Len(ptys) + 1
             /\ SubSeq(ptys', 1, Len(ptys)) = [k \in 1..Len(ptys) |-> Kill(ptys)[k]]
             /\ \A k \in 1..Len(ptys) : ~ptys'[k].alive
             /\ ptys'[Len(ptys')].alive
             /\ Len(files') = Len(ptys)
             /\ \A k \in 1..Len(ptys) :
                   IsFinalCapture(files'[k], k) /\ callbacks'[k].outcome = "ok"]_vars

\* The second session is running: the PTY of the first is dead, its final
\* capture written, and the PTY of the second is alive.
C25_Witness ==
    /\ Len(ptys) = 2
    /\ ~ptys[1].alive /\ ptys[2].alive
    /\ Len(files) = 1
    /\ run.pc = "callback"
    /\ Len(ptys[2].emitted) = 1

\* s is a suffix of t.
IsSuffix(s, t) == Len(s) <= Len(t) /\ SubSeq(t, Len(t) - Len(s) + 1, Len(t)) = s

\* C26: in every state the buffer is a suffix of the data of the output
\* events of the log put together, so no byte is in the buffer that was not
\* received; and what a step of expect removes is a prefix of the buffer:
\* the buffer after a step is a suffix of the buffer before it, with the
\* chunk of the step appended if one arrives.
C26_BufferIsSuffixOfStream ==
    /\ [](IsSuffix(output, Stream))
    /\ [][/\ ChunkArrives => IsSuffix(output', BufferWithChunk)
          /\ ~ChunkArrives => IsSuffix(output', output)]_vars

\* expect("a") has matched on the stream "ab" and the buffer holds the "b".
C26_Witness ==
    /\ Len(calls) = 1
    /\ calls[1].str = <<"a">> /\ calls[1].found = 1
    /\ Stream = <<"a", "b">>
    /\ output = <<"b">>

\* Call id times out in this step.
TimesOut(id) == calls[id].promise = "pending" /\ calls'[id].promise = "rejected"

\* C27: an expect that times out leaves the buffer and the log unchanged and
\* does not wait for stabilization: in the step of its timeout it is thrown
\* out of, and a rejected call is never waiting or returned.  A chunk that
\* arrives while no waiter is registered stays in the buffer whole; and a
\* call of expect for the pattern of a call that has timed out, made when
\* the pattern is in the buffer, finds it in the step of the call.
C27_TimeoutLeavesBufferAndLog ==
    /\ [](\A id \in DOMAIN calls :
             calls[id].promise = "rejected" => calls[id].pc = "thrown")
    /\ [][/\ \A id \in DOMAIN calls :
                TimesOut(id) => /\ output' = output
                                /\ events' = events
                                /\ lastTime' = lastTime
                                /\ calls'[id].pc = "thrown"
          /\ (ChunkArrives /\ listeners = <<>>) => output' = BufferWithChunk
          /\ Len(calls') = Len(calls) + 1
             => LET new == calls'[Len(calls')]
                IN  (/\ \E j \in DOMAIN calls : /\ calls[j].promise = "rejected"
                                                 /\ calls[j].str = new.str
                     /\ Occurs(output, new.str))
                    => /\ new.found = 1
                       /\ new.promise = "fulfilled"
                       /\ IsRestAfterFirst(output, new.str, output')]_vars

\* expect("a") timed out at its deadline, "a" arrived afterwards and stayed
\* in the buffer, and the next expect("a") found it when it was called.
C27_Witness ==
    /\ Len(calls) = 2
    /\ calls[1].str = <<"a">> /\ calls[1].pc = "thrown"
    /\ calls[2].str = <<"a">> /\ calls[2].found = 1
    /\ Stream = <<"a">>
    /\ events[2].time >= calls[1].deadline
    /\ CalledAt(2) > events[2].time
    /\ output = <<>>

\* ---------------------------------------------------------- claims on retry

\* C28: retry looks at its deadline only after an invocation of the callback
\* has failed.  Once retry is called the callback has been invoked at least
\* once, first at the start of retry, whatever timeoutMs is; only the last
\* invocation can be running, every one before it has failed and the next
\* one started at its failure; retry is under way exactly while an
\* invocation is running, so the deadline ends no running invocation; the
\* passing of time changes nothing of retry; and an invocation that returns
\* makes retry return its value, also past the deadline.
C28_DeadlineOnlyAfterFailure ==
    /\ [](retry.pc # "idle"
          => /\ Len(probes) >= 1
             /\ probes[1].startedAt = retry.start
             /\ \A k \in 1..(Len(probes) - 1) :
                   /\ probes[k].outcome = "failed"
                   /\ probes[k + 1].startedAt = probes[k].endedAt
                   /\ probes[k].endedAt - retry.start <= retry.timeoutMs
             /\ retry.pc = "probing" <=> Last(probes).outcome = "running")
    /\ [][/\ now' # now => (retry' = retry /\ probes' = probes)
          /\ (retry.pc = "probing" /\ Len(probes') = Len(probes)
              /\ Last(probes').outcome = "ok")
             => /\ retry'.pc = "returned"
                /\ retry'.value = Last(probes').value]_vars

\* retry(callback, 0): the first invocation was still running when the
\* deadline passed, and its value, which came 50 ms later, was returned.
C28_Witness ==
    /\ retry.pc = "returned"
    /\ retry.timeoutMs = 0
    /\ Len(probes) = 1
    /\ probes[1].endedAt - retry.start = 50
    /\ retry.value = "v2"

\* ------------------------------------------------- claims on the stabilizer

\* At least 100 ms have passed since the last chunk and since the creation
\* of the session.
Quiet == QuietAt(now)

\* C29: once the chunks stop, every pending waitUntilStabilized, and so
\* every send, resize and capture, completes: a call that waits returns in
\* the end.  There is no bound on the wait: a call returns only in a step
\* taken when the output has been quiet for 100 ms, and as long as a step
\* ends less than 100 ms after a chunk a waiting call goes on waiting, so
\* under chunks that keep coming less than 100 ms apart it never returns.
C29_CompletesWhenChunksStop ==
    /\ \A id \in 1..MaxCalls :
          (id \in DOMAIN calls /\ calls[id].pc = "sleeping")
             ~> (id \in DOMAIN calls /\ calls[id].pc = "returned")
    /\ [][\A id \in DOMAIN calls' :
             /\ Returns(id) => Quiet
             /\ (id \in DOMAIN calls /\ calls[id].pc = "sleeping" /\ ~Quiet')
                => calls'[id].pc = "sleeping"]_vars

\* A send called at 0 has been held back by the chunks of 50 and 100 and is
\* still waiting at 150.
C29_Witness ==
    /\ Len(calls) = 1
    /\ calls[1].op = "send" /\ calls[1].pc = "sleeping"
    /\ Len(events) = 3
    /\ events[2].type = "output" /\ events[2].time = 50
    /\ events[3].type = "output" /\ events[3].time = 100
    /\ now = 150
    /\ calls[1].wakeAt = 200

\* ------------------------------------------------ claims on capture records

FixedFields == {"events", "cols", "rows", "text"}

\* C30: in a capture record the four fixed fields hold the values of the
\* session whatever extra holds.  The record written when a call of capture
\* returns has the keys of extra and the four fixed keys; its events are the
\* log, its cols and rows those capture has read from the PTY, its text the
\* rows lines read from the terminal, also when extra has a key of the same
\* name; and every other key of extra has the value extra gives it.
C30_FixedFieldsOverrideExtra ==
    [][\A id \in DOMAIN calls' :
          (calls'[id].op = "capture" /\ Returns(id))
          => LET c == calls'[id]
                 d == files'[Len(files')].data
             IN  /\ Len(files') = Len(files) + 1
                 /\ DOMAIN d = FixedFields \cup DOMAIN c.extra
                 /\ d.events = events'
                 /\ d.cols = c.cols /\ d.cols \in {Cols} \cup {size[1] : size \in Sizes}
                 /\ d.rows = c.rows /\ d.rows \in {Rows} \cup {size[2] : size \in Sizes}
                 /\ d.text \in Seq({c.cols, term'.cols}) /\ Len(d.text) = c.rows
                 /\ \A key \in DOMAIN c.extra \ FixedFields : d[key] = c.extra[key]]_vars

\* A capture called with extra fields named as the four fixed fields and one
\* more has been written after a resize to 100 by 30.
C30_Witness ==
    /\ Len(files) = 1
    /\ Len(calls) = 2
    /\ calls[2].op = "capture"
    /\ DOMAIN calls[2].extra = FixedFields \cup {"note"}
    /\ files[1].data.cols = 100
    /\ files[1].data.rows = 30
    /\ files[1].data.note = "n"
    /\ Len(files[1].data.events) = 2

====
